---- MODULE Spec2Model ----
(***************************************************************************)
(* Model of src/qtbuild.py: one BuildThread running QtProjectBuilder over  *)
(* a project tree: path validation, moc generation, the thread-pool        *)
(* compilation phase, linking and packaging.                               *)
(***************************************************************************)
EXTENDS Naturals, Integers, Sequences, FiniteSets, Bags, TLC

(* ---------------------------------------------------------------- bounds *)

\* number of header files in the project tree
MaxHeaders == 3
\* largest number of ordinary .cpp files in the project tree
MaxCpp == 1
\* os.cpu_count() of the machine
CpuCount == 2

(* ------------------------------------------------------- the project tree *)

Headers == 1 .. MaxHeaders

\* os.path.splitext(header)[0]: headers 1 and 2 are w.h in two directories,
\* header 3 is another name, and so on in pairs.
HeaderBase(h) == (h + 1) \div 2

\* output_path = os.path.join(moc_output_dir, f'moc_{base_name}.cpp')
MocOutputPath(h) == [dir |-> "moc_temp", name |-> HeaderBase(h), kind |-> "moc"]

\* os.path.join(root, file) of the i-th ordinary source
CppPath(i) == [dir |-> "proj", name |-> i, kind |-> "cpp"]

\* every path that can be a source of the compilation phase
SourcePaths == {CppPath(i) : i \in 1 .. MaxCpp} \cup {MocOutputPath(h) : h \in Headers}

\* obj = os.path.join('obj', relpath(dirname(src)), f'{base_name}.o')
ObjOf(src) == [dir |-> <<"obj", src.dir>>, name |-> src.name, kind |-> "o"]

\* a file a previous run left in moc_temp
StaleFile == [dir |-> "moc_temp", name |-> 0, kind |-> "stale"]

RequiredDirs == <<"bin", "include", "lib">>

Range(s) == {s[i] : i \in 1 .. Len(s)}

Min(a, b) == IF a <= b THEN a ELSE b

VARIABLES
    qt_dirs,          \* subdirectories that exist under config['qt_path']
    pack_after_build, \* config['pack_after_build']
    hdr_marked,       \* headers whose text contains Q_OBJECT
    cpp_files,        \* indices of the ordinary .cpp files of the tree
    pc,               \* position of the build thread
    result,           \* what build() returned: "none", "True", "False"
    thread_msg,       \* what BuildThread.run put on the queue: "none", "done", "error"
    error,            \* the exception in flight or caught: "none" or its kind
    stages,           \* the stage methods build() has called, in order
    elapsed_reported, \* the finally clause has printed the elapsed time
    moc_temp,         \* the moc_temp directory: whether it exists, and the files in it
    walk,             \* index of the next header os.walk yields
    moc_files,        \* the list _generate_moc_files builds
    moc_calls,        \* the generator runs so far: header and exit code, in order
    all_sources,      \* list(set(cpp_files + moc_files))
    max_workers,      \* size of the thread pool
    task,             \* source -> position of its compile_task
    proc,             \* source -> state of its compiler process
    lock,             \* threading.Lock(): the set of tasks holding it
    failed_flag,      \* the nonlocal failure flag
    objects,          \* the objects list, as a bag of object paths
    seen_exc,         \* as_completed has met a future with an exception
    saw_flag,         \* per source: what the task's `if failed_flag` read (line 112)
    submitted,        \* bag of the sources handed to executor.submit (line 160)
    sink,             \* tasks that have printed part of a locked section to stdout
    out_dir,          \* the output directory exists
    exe,              \* the executable in the output directory: "absent", "old", "new"
    linker_runs,      \* number of linker processes spawned
    link_proc,        \* the linker process: "none", "alive", "exit0", "exit1"
    link_objects,     \* the objects on the linker command line
    deploy_runs,      \* number of windeployqt processes spawned
    deploy_proc,      \* the windeployqt process: "none", "alive", "exit0", "exit1"
    deployed,         \* windeployqt copied runtime files into the output directory
    tmp_dir,          \* the TemporaryDirectory exists
    tmp_zip,          \* build.zip in it: "absent", "partial", "complete"
    final_zip,        \* the archive at the final path: "absent", "old", "partial", "new"
    init_fs,          \* moc_temp, output directory, executable and archive before the run
    gen_run,          \* which run of _generate_moc_files on this tree this is: 1 or 2
    gen_first,        \* what the first run left: its list, moc_temp, generator runs, outcome
    btn_build,        \* btn_build['state']: "normal" or "disabled"
    event_queue,      \* the message types in event_queue, oldest first
    threads,          \* number of BuildThreads that were started and have not ended
    posted            \* number of messages the latest BuildThread has put on the queue

config == <<qt_dirs, pack_after_build>>
tree == <<hdr_marked, cpp_files>>
ctl == <<pc, result, thread_msg, error, stages, elapsed_reported>>
gen == <<moc_temp, walk, moc_files, moc_calls>>
pool == <<all_sources, max_workers, task, proc, lock, failed_flag, objects, seen_exc,
         saw_flag, submitted, sink>>
link == <<out_dir, exe, linker_runs, link_proc, link_objects>>
pack == <<deploy_runs, deploy_proc, deployed, tmp_dir, tmp_zip, final_zip>>
rerun == <<gen_run, gen_first>>
gui == <<btn_build, event_queue, threads, posted>>
vars == <<config, tree, ctl, gen, pool, link, pack, init_fs, rerun, gui>>

(* ------------------------------------------------------------------ Init *)

Init ==
    /\ qt_dirs \in SUBSET Range(RequiredDirs)
    /\ pack_after_build \in BOOLEAN
    /\ hdr_marked \in SUBSET Headers
    /\ cpp_files \in {1 .. n : n \in 0 .. MaxCpp}
    /\ pc = "run"
    /\ result = "none"
    /\ thread_msg = "none"
    /\ error = "none"
    /\ stages = <<>>
    /\ elapsed_reported = FALSE
    /\ moc_temp \in {[exists |-> FALSE, files |-> {}],
                     [exists |-> TRUE, files |-> {StaleFile}]}
    /\ walk = 1
    /\ moc_files = <<>>
    /\ moc_calls = <<>>
    /\ all_sources = {}
    /\ max_workers = 0
    /\ task = [s \in SourcePaths |-> "none"]
    /\ proc = [s \in SourcePaths |-> "none"]
    /\ lock = {}
    /\ failed_flag = FALSE
    /\ objects = EmptyBag
    /\ seen_exc = FALSE
    /\ saw_flag = [s \in SourcePaths |-> "none"]
    /\ submitted = EmptyBag
    /\ sink = {}
    /\ out_dir \in BOOLEAN
    /\ exe = IF out_dir THEN "old" ELSE "absent"
    /\ linker_runs = 0
    /\ link_proc = "none"
    /\ link_objects = EmptyBag
    /\ deploy_runs = 0
    /\ deploy_proc = "none"
    /\ deployed = FALSE
    /\ tmp_dir = FALSE
    /\ tmp_zip = "absent"
    /\ final_zip \in {"absent", "old"}
    /\ init_fs = [moc_temp |-> moc_temp, out_dir |-> out_dir, exe |-> exe,
                  final_zip |-> final_zip]
    /\ gen_run = 1
    /\ gen_first = [moc_files |-> <<>>, moc_temp |-> moc_temp, moc_calls |-> <<>>,
                    outcome |-> "none"]
    /\ btn_build = "disabled"
    /\ event_queue = <<>>
    /\ threads = 1
    /\ posted = 0

(* ------------------------------------------------ control flow of build() *)

\* an exception leaves a stage method and reaches build()'s except clause
Raise(kind) ==
    /\ pc' = "except"
    /\ error' = kind

\* mutant: required_dirs holds only 'bin'
MissingDirs_BinOnly == {i \in {1} : RequiredDirs[i] \notin qt_dirs}

\* QtProjectBuilder._validate_paths: the first missing directory raises
MissingDirs == {i \in 1 .. Len(RequiredDirs) : RequiredDirs[i] \notin qt_dirs}

\* self.queue.put((msg_type, ...)) as the last statement of run(): the thread ends
Put(msg_type) ==
    /\ event_queue' = Append(event_queue, msg_type)
    /\ posted' = posted + 1
    /\ threads' = threads - 1

\* BuildThread.run: QtProjectBuilder(self.config) succeeds
ValidateOk ==
    /\ pc = "run"
    /\ MissingDirs = {}
    /\ pc' = "build"
    /\ UNCHANGED <<result, thread_msg, error, stages, elapsed_reported>>
    /\ UNCHANGED <<config, tree, gen, pool, link, pack, init_fs, rerun, gui>>

\* BuildThread.run: the constructor raises, run() posts ('error', ...)
ValidateFails ==
    /\ pc = "run"
    /\ MissingDirs # {}
    /\ pc' = "ended"
    /\ error' = "FileNotFoundError"
    /\ thread_msg' = "error"
    /\ Put("error")
    /\ UNCHANGED <<result, stages, elapsed_reported>>
    /\ UNCHANGED <<config, tree, gen, pool, link, pack, init_fs, rerun, btn_build>>

\* build(): start_time is taken, the banner is printed, the try block is entered
BuildStart ==
    /\ pc = "build"
    /\ pc' = "gen_clear"
    /\ UNCHANGED <<result, thread_msg, error, stages, elapsed_reported>>
    /\ UNCHANGED <<config, tree, gen, pool, link, pack, init_fs, rerun, gui>>

\* build(): except Exception: print, return False (the finally clause is next)
BuildExcept ==
    /\ pc = "except"
    /\ result' = "False"
    /\ pc' = "finally"
    /\ UNCHANGED <<thread_msg, error, stages, elapsed_reported>>
    /\ UNCHANGED <<config, tree, gen, pool, link, pack, init_fs, rerun, gui>>

\* build(): return True at the end of the try block
BuildReturnTrue ==
    /\ pc = "return_true"
    /\ result' = "True"
    /\ pc' = "finally"
    /\ UNCHANGED <<thread_msg, error, stages, elapsed_reported>>
    /\ UNCHANGED <<config, tree, gen, pool, link, pack, init_fs, rerun, gui>>

\* mutant: the elapsed time is printed at the end of the try block, not in finally
BuildFinally_OnlyOnSuccess ==
    /\ pc = "finally"
    /\ elapsed_reported' = (result = "True")
    /\ pc' = "returned"
    /\ UNCHANGED <<result, thread_msg, error, stages>>
    /\ UNCHANGED <<config, tree, gen, pool, link, pack, init_fs, rerun, gui>>

\* build(): finally: print the elapsed time
BuildFinally ==
    /\ pc = "finally"
    /\ elapsed_reported' = TRUE
    /\ pc' = "returned"
    /\ UNCHANGED <<result, thread_msg, error, stages>>
    /\ UNCHANGED <<config, tree, gen, pool, link, pack, init_fs, rerun, gui>>

\* BuildThread.run: build() returned, True or False: post ('done', ...)
ThreadPost ==
    /\ pc = "returned"
    /\ thread_msg' = "done"
    /\ Put("done")
    /\ pc' = "ended"
    /\ UNCHANGED <<result, error, stages, elapsed_reported>>
    /\ UNCHANGED <<config, tree, gen, pool, link, pack, init_fs, rerun, btn_build>>

(* ------------------------------------------------- _generate_moc_files *)

\* mutant: only os.makedirs(exist_ok=True), an existing directory is not removed
GenClear_KeepsStale ==
    /\ pc = "gen_clear"
    /\ stages' = Append(stages, "generate")
    /\ moc_temp' = [moc_temp EXCEPT !.exists = TRUE]
    /\ moc_files' = <<>>
    /\ walk' = 1
    /\ pc' = "gen_walk"
    /\ UNCHANGED <<result, thread_msg, error, elapsed_reported, moc_calls>>
    /\ UNCHANGED <<config, tree, pool, link, pack, init_fs, rerun, gui>>

\* rmtree(moc_output_dir) if it exists, then makedirs: the directory is empty
GenClear ==
    /\ pc = "gen_clear"
    /\ stages' = Append(stages, "generate")
    /\ moc_temp' = [exists |-> TRUE, files |-> {}]
    /\ moc_files' = <<>>
    /\ walk' = 1
    /\ pc' = "gen_walk"
    /\ UNCHANGED <<result, thread_msg, error, elapsed_reported, moc_calls>>
    /\ UNCHANGED <<config, tree, pool, link, pack, init_fs, rerun, gui>>

\* mutant: the generator is run for every header
HasMarker_Always(h) == TRUE

\* 'Q_OBJECT' in f.read()
HasMarker(h) == h \in hdr_marked

\* a header without the marker: nothing is run
GenSkipHeader ==
    /\ pc = "gen_walk"
    /\ walk \in Headers
    /\ ~HasMarker(walk)
    /\ walk' = walk + 1
    /\ UNCHANGED <<moc_temp, moc_files, moc_calls>>
    /\ UNCHANGED <<config, tree, ctl, pool, link, pack, init_fs, rerun, gui>>

\* a marked header: subprocess.run([moc, header, '-o', output_path], check=True)
\* exits zero, the output file is written and its path is appended
GenRunMoc ==
    /\ pc = "gen_walk"
    /\ walk \in Headers
    /\ HasMarker(walk)
    /\ moc_calls' = Append(moc_calls, [header |-> walk, rc |-> 0])
    /\ moc_temp' = [moc_temp EXCEPT !.files = @ \cup {MocOutputPath(walk)}]
    /\ moc_files' = Append(moc_files, MocOutputPath(walk))
    /\ walk' = walk + 1
    /\ UNCHANGED <<config, tree, ctl, pool, link, pack, init_fs, rerun, gui>>

\* mutant: subprocess.run without check=True, the exit code is ignored
GenMocFails_NoCheck ==
    /\ pc = "gen_walk"
    /\ walk \in Headers
    /\ HasMarker(walk)
    /\ moc_calls' = Append(moc_calls, [header |-> walk, rc |-> 1])
    /\ moc_files' = Append(moc_files, MocOutputPath(walk))
    /\ walk' = walk + 1
    /\ UNCHANGED moc_temp
    /\ UNCHANGED <<config, tree, ctl, pool, link, pack, init_fs, rerun, gui>>

\* a marked header whose generator run exits non-zero: check=True raises
GenMocFails ==
    /\ pc = "gen_walk"
    /\ walk \in Headers
    /\ HasMarker(walk)
    /\ moc_calls' = Append(moc_calls, [header |-> walk, rc |-> 1])
    /\ Raise("CalledProcessError")
    /\ UNCHANGED <<result, thread_msg, stages, elapsed_reported>>
    /\ UNCHANGED <<moc_temp, walk, moc_files>>
    /\ UNCHANGED <<config, tree, pool, link, pack, init_fs, rerun, gui>>

\* the walk is over: return moc_files
GenReturn ==
    /\ pc = "gen_walk"
    /\ walk \notin Headers
    /\ pc' = "compile_discover"
    /\ UNCHANGED <<result, thread_msg, error, stages, elapsed_reported>>
    /\ UNCHANGED <<config, tree, gen, pool, link, pack, init_fs, rerun, gui>>

\* _generate_moc_files has returned or raised, and nothing else has run since
GenEnded == stages = <<"generate">> /\ pc \in {"compile_discover", "except"}

\* the next build of the unchanged tree calls _generate_moc_files again: what
\* the first call left is kept for comparison, moc_temp stays as it is on disk
GenRerun ==
    /\ GenEnded
    /\ gen_run = 1
    /\ gen_first' = [moc_files |-> moc_files, moc_temp |-> moc_temp,
                     moc_calls |-> moc_calls, outcome |-> error]
    /\ gen_run' = 2
    /\ pc' = "gen_clear"
    /\ error' = "none"
    /\ stages' = <<>>
    /\ moc_calls' = <<>>
    /\ UNCHANGED <<result, thread_msg, elapsed_reported>>
    /\ UNCHANGED <<moc_temp, walk, moc_files>>
    /\ UNCHANGED <<config, tree, pool, link, pack, init_fs, gui>>

\* a deterministic generator: in the second run it exits for a header with the
\* code it exited with for that header in the first run
SameExitCode ==
    gen_run = 2 =>
        /\ Len(moc_calls') <= Len(gen_first.moc_calls)
        /\ moc_calls'[Len(moc_calls')] = gen_first.moc_calls[Len(moc_calls')]

GenRunMocSame == GenRunMoc /\ SameExitCode

GenMocFailsSame == GenMocFails /\ SameExitCode

(* ----------------------------------------------------- _compile_sources *)

\* the os.walk over the project tree, then list(set(cpp_files + moc_files))
AllSources == {CppPath(i) : i \in cpp_files} \cup Range(moc_files)

\* mutant: the output directory is made when compilation starts
CompileDiscover_MakesOutDir ==
    /\ pc = "compile_discover"
    /\ stages' = Append(stages, "compile")
    /\ all_sources' = AllSources
    /\ lock' = {}
    /\ objects' = EmptyBag
    /\ failed_flag' = FALSE
    /\ out_dir' = TRUE
    /\ pc' = "pool_create"
    /\ UNCHANGED <<result, thread_msg, error, elapsed_reported>>
    /\ UNCHANGED <<max_workers, task, proc, seen_exc>>
    /\ UNCHANGED <<saw_flag, submitted, sink>>
    /\ UNCHANGED <<exe, linker_runs, link_proc, link_objects>>
    /\ UNCHANGED <<config, tree, gen, pack, init_fs, rerun, gui>>

\* lines 82-107: discovery, the lock, the objects list, the failure flag
CompileDiscover ==
    /\ pc = "compile_discover"
    /\ stages' = Append(stages, "compile")
    /\ all_sources' = AllSources
    /\ lock' = {}
    /\ objects' = EmptyBag
    /\ failed_flag' = FALSE
    /\ pc' = "pool_create"
    /\ UNCHANGED <<result, thread_msg, error, elapsed_reported>>
    /\ UNCHANGED <<max_workers, task, proc, seen_exc>>
    /\ UNCHANGED <<saw_flag, submitted, sink>>
    /\ UNCHANGED <<config, tree, gen, link, pack, init_fs, rerun, gui>>

\* max_workers = min(os.cpu_count() or 4, len(all_sources))
MaxWorkers == Min(CpuCount, Cardinality(all_sources))

\* ThreadPoolExecutor(max_workers=0) raises ValueError
PoolCreateFails ==
    /\ pc = "pool_create"
    /\ MaxWorkers <= 0
    /\ Raise("ValueError")
    /\ UNCHANGED <<result, thread_msg, stages, elapsed_reported>>
    /\ UNCHANGED <<config, tree, gen, pool, link, pack, init_fs, rerun, gui>>

\* the sequence cpp_files + moc_files as the code concatenates it
Concatenated == [i \in 1 .. (Cardinality(cpp_files) + Len(moc_files)) |->
                    IF i <= Cardinality(cpp_files) THEN CppPath(i)
                    ELSE moc_files[i - Cardinality(cpp_files)]]

\* mutant: every element of cpp_files + moc_files is submitted, duplicates too
SubmitEach_NoSet ==
    [p \in Range(Concatenated) |->
        Cardinality({i \in DOMAIN Concatenated : Concatenated[i] = p})]

\* one submission for each element of the list all_sources
SubmitEach == SetToBag(all_sources)

\* futures = {executor.submit(compile_task, src): src for src in all_sources}
SubmitAll ==
    /\ pc = "pool_create"
    /\ MaxWorkers > 0
    /\ max_workers' = MaxWorkers
    /\ submitted' = SubmitEach
    /\ task' = [s \in SourcePaths |->
                    IF BagIn(s, SubmitEach) THEN "queued" ELSE "none"]
    /\ pc' = "as_completed"
    /\ UNCHANGED <<result, thread_msg, error, stages, elapsed_reported>>
    /\ UNCHANGED <<all_sources, proc, lock, failed_flag, objects, seen_exc>>
    /\ UNCHANGED <<saw_flag, sink>>
    /\ UNCHANGED <<config, tree, gen, link, pack, init_fs, rerun, gui>>

\* positions of a compile_task that a worker thread is executing
RunningPcs == {"log_start", "log_start_locked", "log_start_cmd", "spawn", "reading", "have_line",
               "line_locked", "result", "fail_locked", "done_locked"}

Running == {s \in SourcePaths : task[s] \in RunningPcs}

\* a future is done: the task returned or raised
Settled(s) == task[s] \in {"skipped", "failed", "done", "raised"}

\* mutant: a thread is started for every work item
WorkerFree_Unbounded == TRUE

\* a worker thread is free to take the next work item
WorkerFree == Cardinality(Running) < max_workers

\* mutant: the task reads the flag as set and compiles all the same
TaskSkips_Ignored(s) ==
    /\ task[s] = "queued"
    /\ WorkerFree
    /\ failed_flag
    /\ saw_flag' = [saw_flag EXCEPT ![s] = "set"]
    /\ task' = [task EXCEPT ![s] = "log_start"]
    /\ UNCHANGED <<all_sources, max_workers, proc, lock, failed_flag, objects, seen_exc>>
    /\ UNCHANGED <<submitted, sink>>
    /\ UNCHANGED <<config, tree, ctl, gen, link, pack, init_fs, rerun, gui>>

\* if failed_flag: return None
TaskSkips(s) ==
    /\ task[s] = "queued"
    /\ WorkerFree
    /\ failed_flag
    /\ saw_flag' = [saw_flag EXCEPT ![s] = "set"]
    /\ task' = [task EXCEPT ![s] = "skipped"]
    /\ UNCHANGED <<all_sources, max_workers, proc, lock, failed_flag, objects, seen_exc>>
    /\ UNCHANGED <<submitted, sink>>
    /\ UNCHANGED <<config, tree, ctl, gen, link, pack, init_fs, rerun, gui>>

\* the flag is unset: the task goes on to compute and make its object directory
TaskBegins(s) ==
    /\ task[s] = "queued"
    /\ WorkerFree
    /\ ~failed_flag
    /\ saw_flag' = [saw_flag EXCEPT ![s] = "unset"]
    /\ task' = [task EXCEPT ![s] = "log_start"]
    /\ UNCHANGED <<all_sources, max_workers, proc, lock, failed_flag, objects, seen_exc>>
    /\ UNCHANGED <<submitted, sink>>
    /\ UNCHANGED <<config, tree, ctl, gen, link, pack, init_fs, rerun, gui>>

\* the positions at which the next step of a task is a print to stdout
PrintPcs == {"log_start_locked", "log_start_cmd", "line_locked", "fail_locked",
             "done_locked"}

\* the position inside the with-block a task enters from position p
Locked(s, p) ==
    CASE p = "log_start" -> "log_start_locked"
      [] p = "have_line" -> "line_locked"
      [] p = "result" -> IF proc[s] = "exit0" THEN "done_locked" ELSE "fail_locked"

\* mutant: the with-block is entered without waiting for the lock
TaskAcquire_NoWait(s) ==
    /\ task[s] \in {"log_start", "have_line", "result"}
    /\ lock' = lock \cup {s}
    /\ task' = [task EXCEPT ![s] = Locked(s, task[s])]
    /\ UNCHANGED <<all_sources, max_workers, proc, failed_flag, objects, seen_exc>>
    /\ UNCHANGED <<saw_flag, submitted, sink>>
    /\ UNCHANGED <<config, tree, ctl, gen, link, pack, init_fs, rerun, gui>>

\* with lock: the lock is acquired when no task holds it
TaskAcquire(s) ==
    /\ task[s] \in {"log_start", "have_line", "result"}
    /\ lock = {}
    /\ lock' = {s}
    /\ task' = [task EXCEPT ![s] = Locked(s, task[s])]
    /\ UNCHANGED <<all_sources, max_workers, proc, failed_flag, objects, seen_exc>>
    /\ UNCHANGED <<saw_flag, submitted, sink>>
    /\ UNCHANGED <<config, tree, ctl, gen, link, pack, init_fs, rerun, gui>>

\* print(f"[G++][开始] ..."): the first line of the start section is written
TaskLogStart(s) ==
    /\ task[s] = "log_start_locked"
    /\ sink' = sink \cup {s}
    /\ task' = [task EXCEPT ![s] = "log_start_cmd"]
    /\ UNCHANGED <<all_sources, max_workers, proc, lock, failed_flag, objects, seen_exc>>
    /\ UNCHANGED <<saw_flag, submitted>>
    /\ UNCHANGED <<config, tree, ctl, gen, link, pack, init_fs, rerun, gui>>

\* mutant: the lock is not released before the compiler is started
TaskLogCommand_KeepsLock(s) ==
    /\ task[s] = "log_start_cmd"
    /\ sink' = sink \ {s}
    /\ task' = [task EXCEPT ![s] = "spawn"]
    /\ UNCHANGED <<all_sources, max_workers, proc, lock, failed_flag, objects, seen_exc>>
    /\ UNCHANGED <<saw_flag, submitted>>
    /\ UNCHANGED <<config, tree, ctl, gen, link, pack, init_fs, rerun, gui>>

\* print(f"[G++][命令] ..."): the command line is written, the lock is released
TaskLogCommand(s) ==
    /\ task[s] = "log_start_cmd"
    /\ sink' = sink \ {s}
    /\ lock' = lock \ {s}
    /\ task' = [task EXCEPT ![s] = "spawn"]
    /\ UNCHANGED <<all_sources, max_workers, proc, failed_flag, objects, seen_exc>>
    /\ UNCHANGED <<saw_flag, submitted>>
    /\ UNCHANGED <<config, tree, ctl, gen, link, pack, init_fs, rerun, gui>>

\* subprocess.Popen([*compile_cmd, '-o', obj, src], ...) starts the compiler
TaskSpawn(s) ==
    /\ task[s] = "spawn"
    /\ proc' = [proc EXCEPT ![s] = "alive"]
    /\ task' = [task EXCEPT ![s] = "reading"]
    /\ UNCHANGED <<all_sources, max_workers, lock, failed_flag, objects, seen_exc>>
    /\ UNCHANGED <<saw_flag, submitted, sink>>
    /\ UNCHANGED <<config, tree, ctl, gen, link, pack, init_fs, rerun, gui>>

\* os.path.relpath or os.makedirs (lines 116-119) or subprocess.Popen raises:
\* the task ends and its future holds the exception
TaskRaises(s) ==
    /\ task[s] \in {"log_start", "spawn"}
    /\ task' = [task EXCEPT ![s] = "raised"]
    /\ UNCHANGED <<all_sources, max_workers, proc, lock, failed_flag, objects, seen_exc>>
    /\ UNCHANGED <<saw_flag, submitted, sink>>
    /\ UNCHANGED <<config, tree, ctl, gen, link, pack, init_fs, rerun, gui>>

\* process.stdout.readline() returns a line (the process prints any number of them)
TaskReadLine(s) ==
    /\ task[s] = "reading"
    /\ proc[s] = "alive"
    /\ task' = [task EXCEPT ![s] = "have_line"]
    /\ UNCHANGED <<all_sources, max_workers, proc, lock, failed_flag, objects, seen_exc>>
    /\ UNCHANGED <<saw_flag, submitted, sink>>
    /\ UNCHANGED <<config, tree, ctl, gen, link, pack, init_fs, rerun, gui>>

\* the line is printed, the lock is released
TaskLogLine(s) ==
    /\ task[s] = "line_locked"
    /\ lock' = lock \ {s}
    /\ task' = [task EXCEPT ![s] = "reading"]
    /\ UNCHANGED <<all_sources, max_workers, proc, failed_flag, objects, seen_exc>>
    /\ UNCHANGED <<saw_flag, submitted, sink>>
    /\ UNCHANGED <<config, tree, ctl, gen, link, pack, init_fs, rerun, gui>>

\* the compiler exits with return code rc; readline() returns '' and poll() the code
TaskReadEof(s, rc) ==
    /\ task[s] = "reading"
    /\ proc[s] = "alive"
    /\ proc' = [proc EXCEPT ![s] = IF rc = 0 THEN "exit0" ELSE "exit1"]
    /\ task' = [task EXCEPT ![s] = "result"]
    /\ UNCHANGED <<all_sources, max_workers, lock, failed_flag, objects, seen_exc>>
    /\ UNCHANGED <<saw_flag, submitted, sink>>
    /\ UNCHANGED <<config, tree, ctl, gen, link, pack, init_fs, rerun, gui>>

\* mutant: compile_task without the nonlocal declaration, the write is to a local
TaskRecordFailure_NoNonlocal(s) ==
    /\ task[s] = "fail_locked"
    /\ lock' = lock \ {s}
    /\ task' = [task EXCEPT ![s] = "failed"]
    /\ UNCHANGED <<all_sources, max_workers, proc, failed_flag, objects, seen_exc>>
    /\ UNCHANGED <<saw_flag, submitted, sink>>
    /\ UNCHANGED <<config, tree, ctl, gen, link, pack, init_fs, rerun, gui>>

\* returncode != 0: with lock: print the failure; failed_flag = True; return None
TaskRecordFailure(s) ==
    /\ task[s] = "fail_locked"
    /\ failed_flag' = TRUE
    /\ lock' = lock \ {s}
    /\ task' = [task EXCEPT ![s] = "failed"]
    /\ UNCHANGED <<all_sources, max_workers, proc, objects, seen_exc>>
    /\ UNCHANGED <<saw_flag, submitted, sink>>
    /\ UNCHANGED <<config, tree, ctl, gen, link, pack, init_fs, rerun, gui>>

\* mutant: a task that compiled its source clears the failure flag
TaskRecordObject_ClearsFlag(s) ==
    /\ task[s] = "done_locked"
    /\ objects' = objects (+) SetToBag({ObjOf(s)})
    /\ failed_flag' = FALSE
    /\ lock' = lock \ {s}
    /\ task' = [task EXCEPT ![s] = "done"]
    /\ UNCHANGED <<all_sources, max_workers, proc, seen_exc>>
    /\ UNCHANGED <<saw_flag, submitted, sink>>
    /\ UNCHANGED <<config, tree, ctl, gen, link, pack, init_fs, rerun, gui>>

\* returncode == 0: with lock: objects.append(obj); print; return obj
TaskRecordObject(s) ==
    /\ task[s] = "done_locked"
    /\ objects' = objects (+) SetToBag({ObjOf(s)})
    /\ lock' = lock \ {s}
    /\ task' = [task EXCEPT ![s] = "done"]
    /\ UNCHANGED <<all_sources, max_workers, proc, failed_flag, seen_exc>>
    /\ UNCHANGED <<saw_flag, submitted, sink>>
    /\ UNCHANGED <<config, tree, ctl, gen, link, pack, init_fs, rerun, gui>>

\* as_completed yields a future whose exception() is set: shutdown(wait=False), raise
SeeException ==
    /\ pc = "as_completed"
    /\ \E s \in all_sources : task[s] = "raised"
    /\ seen_exc' = TRUE
    /\ pc' = "pool_exit"
    /\ UNCHANGED <<result, thread_msg, error, stages, elapsed_reported>>
    /\ UNCHANGED <<all_sources, max_workers, task, proc, lock, failed_flag, objects>>
    /\ UNCHANGED <<saw_flag, submitted, sink>>
    /\ UNCHANGED <<config, tree, gen, link, pack, init_fs, rerun, gui>>

\* as_completed is exhausted: every future is done and none holds an exception
AllCompleted ==
    /\ pc = "as_completed"
    /\ \A s \in all_sources : Settled(s) /\ task[s] # "raised"
    /\ pc' = "pool_exit"
    /\ UNCHANGED <<result, thread_msg, error, stages, elapsed_reported>>
    /\ UNCHANGED <<config, tree, gen, pool, link, pack, init_fs, rerun, gui>>

\* mutant: the with-block is left without joining the worker threads
PoolJoined_NoWait == TRUE

\* the executor's __exit__ is shutdown(wait=True): it joins the worker threads,
\* which run every queued work item before they end
PoolJoined == \A s \in all_sources : Settled(s)

\* the with-block is left by the exception of a task
PoolExitRaises ==
    /\ pc = "pool_exit"
    /\ PoolJoined
    /\ seen_exc
    /\ Raise("TaskException")
    /\ UNCHANGED <<result, thread_msg, stages, elapsed_reported>>
    /\ UNCHANGED <<config, tree, gen, pool, link, pack, init_fs, rerun, gui>>

\* the with-block is left normally
PoolExitNormal ==
    /\ pc = "pool_exit"
    /\ PoolJoined
    /\ ~seen_exc
    /\ pc' = "check_failed"
    /\ UNCHANGED <<result, thread_msg, error, stages, elapsed_reported>>
    /\ UNCHANGED <<config, tree, gen, pool, link, pack, init_fs, rerun, gui>>

\* if failed_flag:
PhaseFailed == failed_flag

\* raise RuntimeError(...)
CompileFails ==
    /\ pc = "check_failed"
    /\ PhaseFailed
    /\ Raise("RuntimeError")
    /\ UNCHANGED <<result, thread_msg, stages, elapsed_reported>>
    /\ UNCHANGED <<config, tree, gen, pool, link, pack, init_fs, rerun, gui>>

\* return objects
CompileReturn ==
    /\ pc = "check_failed"
    /\ ~PhaseFailed
    /\ pc' = "link_mkdir"
    /\ UNCHANGED <<result, thread_msg, error, stages, elapsed_reported>>
    /\ UNCHANGED <<config, tree, gen, pool, link, pack, init_fs, rerun, gui>>

\* the compilation phase alone: a valid toolkit, generation without failures,
\* then _compile_sources up to its return or raise
InitPool ==
    /\ Init
    /\ qt_dirs = Range(RequiredDirs)
    /\ ~pack_after_build
    /\ ~out_dir
    /\ final_zip = "absent"
    /\ ~moc_temp.exists

\* one step of a compile task or of its compiler process
TaskStep(s) ==
    \/ TaskSkips(s)
    \/ TaskBegins(s)
    \/ TaskAcquire(s)
    \/ TaskLogStart(s)
    \/ TaskLogCommand(s)
    \/ TaskSpawn(s)
    \/ TaskRaises(s)
    \/ TaskReadLine(s)
    \/ TaskLogLine(s)
    \/ \E rc \in {0, 1} : TaskReadEof(s, rc)
    \/ TaskRecordFailure(s)
    \/ TaskRecordObject(s)

NextPool ==
    \/ ValidateOk
    \/ BuildStart
    \/ GenClear
    \/ GenSkipHeader
    \/ GenRunMoc
    \/ GenReturn
    \/ CompileDiscover
    \/ PoolCreateFails
    \/ SubmitAll
    \/ \E s \in SourcePaths : TaskStep(s)
    \/ SeeException
    \/ AllCompleted
    \/ PoolExitRaises
    \/ PoolExitNormal
    \/ CompileFails
    \/ CompileReturn

SpecPool == InitPool /\ [][NextPool]_vars

\* a step of the thread that runs build()
MainStep ==
    \/ ValidateOk
    \/ BuildStart
    \/ GenClear
    \/ GenSkipHeader
    \/ GenRunMoc
    \/ GenReturn
    \/ CompileDiscover
    \/ PoolCreateFails
    \/ SubmitAll
    \/ SeeException
    \/ AllCompleted
    \/ PoolExitRaises
    \/ PoolExitNormal
    \/ CompileFails
    \/ CompileReturn

\* fair scheduling: the build thread and every worker thread keep taking steps
\* they can take, and every compiler process that was started exits at some time
FairPool ==
    /\ SpecPool
    /\ WF_vars(MainStep)
    /\ \A s \in SourcePaths : WF_vars(TaskStep(s))
    /\ \A s \in SourcePaths : SF_vars(\E rc \in {0, 1} : TaskReadEof(s, rc))

(* ----------------------------------------------------- _link_executable *)

\* os.makedirs(output_dir, exist_ok=True); the link command is built and printed
LinkPrepare ==
    /\ pc = "link_mkdir"
    /\ stages' = Append(stages, "link")
    /\ out_dir' = TRUE
    /\ pc' = "link_spawn"
    /\ UNCHANGED <<result, thread_msg, error, elapsed_reported>>
    /\ UNCHANGED <<exe, linker_runs, link_proc, link_objects>>
    /\ UNCHANGED <<config, tree, gen, pool, pack, init_fs, rerun, gui>>

\* subprocess.Popen(link_cmd, ...) with *objects on the command line
LinkSpawn ==
    /\ pc = "link_spawn"
    /\ linker_runs' = linker_runs + 1
    /\ link_proc' = "alive"
    /\ link_objects' = objects
    /\ pc' = "link_wait"
    /\ UNCHANGED <<result, thread_msg, error, stages, elapsed_reported>>
    /\ UNCHANGED <<out_dir, exe>>
    /\ UNCHANGED <<config, tree, gen, pool, pack, init_fs, rerun, gui>>

\* mutant: packaging runs whatever the configuration says
AfterLink_Always == "pack_deploy"

\* if self.config.get('pack_after_build'): self._package_build(exe_path)
AfterLink == IF pack_after_build THEN "pack_deploy" ELSE "return_true"

\* the linker exits zero: the executable is written and its path returned
LinkSucceeds ==
    /\ pc = "link_wait"
    /\ link_proc' = "exit0"
    /\ exe' = "new"
    /\ pc' = AfterLink
    /\ UNCHANGED <<result, thread_msg, error, stages, elapsed_reported>>
    /\ UNCHANGED <<out_dir, linker_runs, link_objects>>
    /\ UNCHANGED <<config, tree, gen, pool, pack, init_fs, rerun, gui>>

\* the linker exits non-zero: raise CalledProcessError; the linker may have
\* removed an executable that was there
LinkFails ==
    /\ pc = "link_wait"
    /\ link_proc' = "exit1"
    /\ exe' \in {exe, "absent"}
    /\ Raise("LinkError")
    /\ UNCHANGED <<result, thread_msg, stages, elapsed_reported>>
    /\ UNCHANGED <<out_dir, linker_runs, link_objects>>
    /\ UNCHANGED <<config, tree, gen, pool, pack, init_fs, rerun, gui>>

(* -------------------------------------------------------- _package_build *)

\* subprocess.Popen(deploy_cmd, ...) starts windeployqt
DeploySpawn ==
    /\ pc = "pack_deploy"
    /\ stages' = Append(stages, "package")
    /\ deploy_runs' = deploy_runs + 1
    /\ deploy_proc' = "alive"
    /\ pc' = "deploy_wait"
    /\ UNCHANGED <<result, thread_msg, error, elapsed_reported>>
    /\ UNCHANGED <<deployed, tmp_dir, tmp_zip, final_zip>>
    /\ UNCHANGED <<config, tree, gen, pool, link, init_fs, rerun, gui>>

\* windeployqt exits zero: the runtime files are in the output directory
DeploySucceeds ==
    /\ pc = "deploy_wait"
    /\ deploy_proc' = "exit0"
    /\ deployed' = TRUE
    /\ pc' = "pack_tmp"
    /\ UNCHANGED <<result, thread_msg, error, stages, elapsed_reported>>
    /\ UNCHANGED <<deploy_runs, tmp_dir, tmp_zip, final_zip>>
    /\ UNCHANGED <<config, tree, gen, pool, link, init_fs, rerun, gui>>

\* mutant: the return code of windeployqt is not looked at
DeployFails_Ignored ==
    /\ pc = "deploy_wait"
    /\ deploy_proc' = "exit1"
    /\ deployed' \in BOOLEAN
    /\ pc' = "pack_tmp"
    /\ UNCHANGED <<result, thread_msg, error, stages, elapsed_reported>>
    /\ UNCHANGED <<deploy_runs, tmp_dir, tmp_zip, final_zip>>
    /\ UNCHANGED <<config, tree, gen, pool, link, init_fs, rerun, gui>>

\* windeployqt exits non-zero, having copied some files or none:
\* raise CalledProcessError, printed and re-raised by the except clause
DeployFails ==
    /\ pc = "deploy_wait"
    /\ deploy_proc' = "exit1"
    /\ deployed' \in BOOLEAN
    /\ Raise("DeployError")
    /\ UNCHANGED <<result, thread_msg, stages, elapsed_reported>>
    /\ UNCHANGED <<deploy_runs, tmp_dir, tmp_zip, final_zip>>
    /\ UNCHANGED <<config, tree, gen, pool, link, init_fs, rerun, gui>>

\* with tempfile.TemporaryDirectory() as tmp_dir; os.makedirs(build_dir)
PackTmp ==
    /\ pc = "pack_tmp"
    /\ tmp_dir' = TRUE
    /\ pc' = "zip_open"
    /\ UNCHANGED <<result, thread_msg, error, stages, elapsed_reported>>
    /\ UNCHANGED <<deploy_runs, deploy_proc, deployed, tmp_zip, final_zip>>
    /\ UNCHANGED <<config, tree, gen, pool, link, init_fs, rerun, gui>>

\* TemporaryDirectory.__exit__: the directory and what is in it are removed
TmpCleanup ==
    /\ tmp_dir' = FALSE
    /\ tmp_zip' = "absent"

\* mutant: the temporary directory is left behind when the with-block raises
PackRaise_NoCleanup(kind) ==
    /\ UNCHANGED <<tmp_dir, tmp_zip>>
    /\ Raise(kind)

\* an exception leaves the with-block: cleanup, print, re-raise
PackRaise(kind) ==
    /\ TmpCleanup
    /\ Raise(kind)

\* zipfile.ZipFile(tmp_zip, 'w'): the file is created
ZipOpen ==
    /\ pc = "zip_open"
    /\ tmp_zip' = "partial"
    /\ pc' = "zip_write"
    /\ UNCHANGED <<result, thread_msg, error, stages, elapsed_reported>>
    /\ UNCHANGED <<deploy_runs, deploy_proc, deployed, tmp_dir, final_zip>>
    /\ UNCHANGED <<config, tree, gen, pool, link, init_fs, rerun, gui>>

\* every file is written and the ZipFile is closed
ZipClose ==
    /\ pc = "zip_write"
    /\ tmp_zip' = "complete"
    /\ pc' = "pack_remove"
    /\ UNCHANGED <<result, thread_msg, error, stages, elapsed_reported>>
    /\ UNCHANGED <<deploy_runs, deploy_proc, deployed, tmp_dir, final_zip>>
    /\ UNCHANGED <<config, tree, gen, pool, link, init_fs, rerun, gui>>

\* os.walk or z.write raises
ZipFails ==
    /\ pc = "zip_write"
    /\ PackRaise("ZipError")
    /\ UNCHANGED <<result, thread_msg, stages, elapsed_reported>>
    /\ UNCHANGED <<deploy_runs, deploy_proc, deployed, final_zip>>
    /\ UNCHANGED <<config, tree, gen, pool, link, init_fs, rerun, gui>>

\* if os.path.exists(final_zip): os.remove(final_zip)
RemoveOld(z) == IF z # "absent" THEN "absent" ELSE z

PackRemoveOld ==
    /\ pc = "pack_remove"
    /\ final_zip' = RemoveOld(final_zip)
    /\ pc' = "pack_move"
    /\ UNCHANGED <<result, thread_msg, error, stages, elapsed_reported>>
    /\ UNCHANGED <<deploy_runs, deploy_proc, deployed, tmp_dir, tmp_zip>>
    /\ UNCHANGED <<config, tree, gen, pool, link, init_fs, rerun, gui>>

\* os.remove raises (the old archive is open elsewhere, or not removable)
PackRemoveFails ==
    /\ pc = "pack_remove"
    /\ final_zip # "absent"
    /\ PackRaise("RemoveError")
    /\ UNCHANGED <<result, thread_msg, stages, elapsed_reported>>
    /\ UNCHANGED <<deploy_runs, deploy_proc, deployed, final_zip>>
    /\ UNCHANGED <<config, tree, gen, pool, link, init_fs, rerun, gui>>

\* shutil.move: os.rename succeeds (same filesystem)
PackMoveRename ==
    /\ pc = "pack_move"
    /\ final_zip' = "new"
    /\ tmp_zip' = "absent"
    /\ pc' = "pack_report"
    /\ UNCHANGED <<result, thread_msg, error, stages, elapsed_reported>>
    /\ UNCHANGED <<deploy_runs, deploy_proc, deployed, tmp_dir>>
    /\ UNCHANGED <<config, tree, gen, pool, link, init_fs, rerun, gui>>

\* shutil.move: os.rename fails across filesystems, copy2 starts writing
PackMoveCopyStart ==
    /\ pc = "pack_move"
    /\ final_zip' = "partial"
    /\ pc' = "pack_copying"
    /\ UNCHANGED <<result, thread_msg, error, stages, elapsed_reported>>
    /\ UNCHANGED <<deploy_runs, deploy_proc, deployed, tmp_dir, tmp_zip>>
    /\ UNCHANGED <<config, tree, gen, pool, link, init_fs, rerun, gui>>

\* shutil.move: the copy is complete, the source is unlinked
PackMoveCopyEnd ==
    /\ pc = "pack_copying"
    /\ final_zip' = "new"
    /\ tmp_zip' = "absent"
    /\ pc' = "pack_report"
    /\ UNCHANGED <<result, thread_msg, error, stages, elapsed_reported>>
    /\ UNCHANGED <<deploy_runs, deploy_proc, deployed, tmp_dir>>
    /\ UNCHANGED <<config, tree, gen, pool, link, init_fs, rerun, gui>>

\* shutil.move raises, before writing or in the middle of the copy
PackMoveFails ==
    /\ pc \in {"pack_move", "pack_copying"}
    /\ PackRaise("MoveError")
    /\ UNCHANGED <<result, thread_msg, stages, elapsed_reported>>
    /\ UNCHANGED <<deploy_runs, deploy_proc, deployed, final_zip>>
    /\ UNCHANGED <<config, tree, gen, pool, link, init_fs, rerun, gui>>

\* the path and size are printed; the with-block ends: cleanup
PackReport ==
    /\ pc = "pack_report"
    /\ TmpCleanup
    /\ pc' = "return_true"
    /\ UNCHANGED <<result, thread_msg, error, stages, elapsed_reported>>
    /\ UNCHANGED <<deploy_runs, deploy_proc, deployed, final_zip>>
    /\ UNCHANGED <<config, tree, gen, pool, link, init_fs, rerun, gui>>

(* ------------------------------------------------------------------ Next *)

Next ==
    \/ ValidateOk
    \/ ValidateFails
    \/ BuildStart
    \/ BuildExcept
    \/ BuildReturnTrue
    \/ BuildFinally
    \/ ThreadPost
    \/ GenClear
    \/ GenSkipHeader
    \/ GenRunMoc
    \/ GenMocFails
    \/ GenReturn
    \/ CompileDiscover
    \/ PoolCreateFails
    \/ SubmitAll
    \/ \E s \in SourcePaths : TaskSkips(s)
    \/ \E s \in SourcePaths : TaskBegins(s)
    \/ \E s \in SourcePaths : TaskAcquire(s)
    \/ \E s \in SourcePaths : TaskLogStart(s)
    \/ \E s \in SourcePaths : TaskLogCommand(s)
    \/ \E s \in SourcePaths : TaskSpawn(s)
    \/ \E s \in SourcePaths : TaskRaises(s)
    \/ \E s \in SourcePaths : TaskReadLine(s)
    \/ \E s \in SourcePaths : TaskLogLine(s)
    \/ \E s \in SourcePaths, rc \in {0, 1} : TaskReadEof(s, rc)
    \/ \E s \in SourcePaths : TaskRecordFailure(s)
    \/ \E s \in SourcePaths : TaskRecordObject(s)
    \/ SeeException
    \/ AllCompleted
    \/ PoolExitRaises
    \/ PoolExitNormal
    \/ CompileFails
    \/ CompileReturn
    \/ LinkPrepare
    \/ LinkSpawn
    \/ LinkSucceeds
    \/ LinkFails
    \/ DeploySpawn
    \/ DeploySucceeds
    \/ DeployFails
    \/ PackTmp
    \/ ZipOpen
    \/ ZipClose
    \/ ZipFails
    \/ PackRemoveOld
    \/ PackRemoveFails
    \/ PackMoveRename
    \/ PackMoveCopyStart
    \/ PackMoveCopyEnd
    \/ PackMoveFails
    \/ PackReport

Spec == Init /\ [][Next]_vars

\* two runs of _generate_moc_files in a row on one tree, with a deterministic
\* generator; the rest of the configuration is fixed
InitGen ==
    /\ Init
    /\ qt_dirs = Range(RequiredDirs)
    /\ ~pack_after_build
    /\ cpp_files = {}
    /\ ~out_dir
    /\ final_zip = "absent"

NextGen ==
    \/ ValidateOk
    \/ BuildStart
    \/ GenClear
    \/ GenSkipHeader
    \/ GenRunMocSame
    \/ GenMocFailsSame
    \/ GenReturn
    \/ GenRerun

SpecGen == InitGen /\ [][NextGen]_vars

(* ----------------------------------------------------------- QtBuilderApp *)

\* QtBuilderApp.__init__: the window is up, the button is enabled, the queue is
\* empty and no build was started; a tree with at most one marked header, no
\* packaging
InitGui ==
    /\ qt_dirs \in SUBSET Range(RequiredDirs)
    /\ pack_after_build = FALSE
    /\ hdr_marked \in {{}, {1}}
    /\ cpp_files \in {1 .. n : n \in 0 .. MaxCpp}
    /\ pc = "idle"
    /\ result = "none"
    /\ thread_msg = "none"
    /\ error = "none"
    /\ stages = <<>>
    /\ elapsed_reported = FALSE
    /\ moc_temp = [exists |-> FALSE, files |-> {}]
    /\ walk = 1
    /\ moc_files = <<>>
    /\ moc_calls = <<>>
    /\ all_sources = {}
    /\ max_workers = 0
    /\ task = [s \in SourcePaths |-> "none"]
    /\ proc = [s \in SourcePaths |-> "none"]
    /\ lock = {}
    /\ failed_flag = FALSE
    /\ objects = EmptyBag
    /\ seen_exc = FALSE
    /\ saw_flag = [s \in SourcePaths |-> "none"]
    /\ submitted = EmptyBag
    /\ sink = {}
    /\ out_dir = FALSE
    /\ exe = "absent"
    /\ linker_runs = 0
    /\ link_proc = "none"
    /\ link_objects = EmptyBag
    /\ deploy_runs = 0
    /\ deploy_proc = "none"
    /\ deployed = FALSE
    /\ tmp_dir = FALSE
    /\ tmp_zip = "absent"
    /\ final_zip = "absent"
    /\ init_fs = [moc_temp |-> moc_temp, out_dir |-> out_dir, exe |-> exe,
                  final_zip |-> final_zip]
    /\ gen_run = 1
    /\ gen_first = [moc_files |-> <<>>, moc_temp |-> moc_temp, moc_calls |-> <<>>,
                    outcome |-> "none"]
    /\ btn_build = "normal"
    /\ event_queue = <<>>
    /\ threads = 0
    /\ posted = 0

\* a new BuildThread and its QtProjectBuilder start from nothing; the files on
\* disk stay as the builds before left them
FreshThread ==
    /\ pc' = "run"
    /\ result' = "none"
    /\ thread_msg' = "none"
    /\ error' = "none"
    /\ stages' = <<>>
    /\ elapsed_reported' = FALSE
    /\ walk' = 1
    /\ moc_files' = <<>>
    /\ moc_calls' = <<>>
    /\ all_sources' = {}
    /\ max_workers' = 0
    /\ task' = [s \in SourcePaths |-> "none"]
    /\ proc' = [s \in SourcePaths |-> "none"]
    /\ lock' = {}
    /\ failed_flag' = FALSE
    /\ objects' = EmptyBag
    /\ seen_exc' = FALSE
    /\ saw_flag' = [s \in SourcePaths |-> "none"]
    /\ submitted' = EmptyBag
    /\ sink' = {}
    /\ linker_runs' = 0
    /\ link_proc' = "none"
    /\ link_objects' = EmptyBag
    /\ init_fs' = [moc_temp |-> moc_temp, out_dir |-> out_dir, exe |-> exe,
                   final_zip |-> final_zip]
    /\ posted' = 0
    /\ UNCHANGED <<moc_temp, out_dir, exe, pack, rerun>>

\* mutant: start_build leaves the button enabled
StartBuild_KeepsEnabled ==
    /\ btn_build = "normal"
    /\ threads' = threads + 1
    /\ FreshThread
    /\ UNCHANGED <<config, tree, btn_build, event_queue>>

\* start_build, the command of the build button (a disabled button does not
\* call it): disable the button, save and read the configuration, start a thread
StartBuild ==
    /\ btn_build = "normal"
    /\ btn_build' = "disabled"
    /\ threads' = threads + 1
    /\ FreshThread
    /\ UNCHANGED <<config, tree, event_queue>>

\* check_queue, every 100 ms: every queued message is taken; 'done' and 'error'
\* each show a dialog and set the button to normal
CheckQueue ==
    /\ event_queue # <<>>
    /\ event_queue' = <<>>
    /\ btn_build' = IF \E i \in DOMAIN event_queue : event_queue[i] \in {"done", "error"}
                    THEN "normal" ELSE btn_build
    /\ UNCHANGED <<threads, posted>>
    /\ UNCHANGED <<config, tree, ctl, gen, pool, link, pack, init_fs, rerun>>

\* a step of the BuildThread itself, from run() to its queue.put
BuildThreadStep ==
    \/ ValidateOk
    \/ ValidateFails
    \/ BuildStart
    \/ BuildExcept
    \/ BuildReturnTrue
    \/ BuildFinally
    \/ ThreadPost
    \/ GenClear
    \/ GenSkipHeader
    \/ GenRunMoc
    \/ GenReturn
    \/ CompileDiscover
    \/ PoolCreateFails
    \/ SubmitAll
    \/ SeeException
    \/ AllCompleted
    \/ PoolExitRaises
    \/ PoolExitNormal
    \/ CompileFails
    \/ CompileReturn
    \/ LinkPrepare
    \/ LinkSpawn
    \/ LinkSucceeds
    \/ LinkFails

NextGui ==
    \/ StartBuild
    \/ CheckQueue
    \/ BuildThreadStep
    \/ \E s \in SourcePaths : TaskStep(s)

\* the Tk timer keeps calling check_queue, the build thread and the workers keep
\* running, and every compiler process exits at some time; nothing makes the
\* user press the build button
SpecGui ==
    /\ InitGui
    /\ [][NextGui]_vars
    /\ WF_vars(CheckQueue)
    /\ WF_vars(BuildThreadStep)
    /\ \A s \in SourcePaths : WF_vars(TaskStep(s))
    /\ \A s \in SourcePaths : SF_vars(\E rc \in {0, 1} : TaskReadEof(s, rc))

(* ---------------------------------------------------------------- claims *)

CompilePcs == {"pool_create", "as_completed", "pool_exit", "check_failed"}

\* _compile_sources was called and has returned or raised
CompileEnded == "compile" \in Range(stages) /\ pc \notin CompilePcs

\* _compile_sources returned its objects list to build()
CompileReturned == pc = "link_mkdir" \/ "link" \in Range(stages)

SomeCompilerFailed == \E s \in SourcePaths : proc[s] = "exit1"

SomeTaskRaised == \E s \in SourcePaths : task[s] = "raised"

BuildOver == pc \in {"returned", "ended"}

\* C1 as stated: whenever a compiler process exited non-zero, the phase ends
\* by raising the compilation error (RuntimeError) and returns no object list.
C1_Original ==
    (CompileEnded /\ SomeCompilerFailed) => (error = "RuntimeError" /\ ~CompileReturned)

\* C1 amended: whenever a compiler process exited non-zero, the phase ends by
\* raising and never returns an object list; what it raises is the compilation
\* error when no compile task raised an exception, and otherwise the exception
\* of a task, whatever the other tasks did.
C1_FailFast ==
    (CompileEnded /\ SomeCompilerFailed) =>
        /\ ~CompileReturned
        /\ linker_runs = 0
        /\ error = IF SomeTaskRaised THEN "TaskException" ELSE "RuntimeError"

\* one compiler failed while another source was compiled and a third task was skipped
C1_Witness ==
    /\ CompileEnded
    /\ SomeCompilerFailed
    /\ error = "RuntimeError"
    /\ \E s \in SourcePaths : task[s] = "done"
    /\ \E s \in SourcePaths : task[s] = "skipped"

\* C2 as stated: for every N >= 0 distinct sources, when every source's compiler
\* process exited zero the phase returns normally with exactly N object paths,
\* one per source and without duplicates, and the linker gets exactly those.
C2_AllCompiled ==
    (CompileEnded /\ \A s \in AllSources : proc[s] = "exit0") =>
        /\ CompileReturned
        /\ objects = SetToBag({ObjOf(s) : s \in AllSources})
        /\ BagCardinality(objects) = Cardinality(AllSources)
        /\ link_proc # "none" => link_objects = objects

\* the same for N >= 1, which the code satisfies
C2_NonEmpty == AllSources # {} => C2_AllCompiled

\* three sources were compiled and the linker was started with their objects
C2_NonEmptyWitness ==
    /\ Cardinality(AllSources) >= 3
    /\ \A s \in AllSources : proc[s] = "exit0"
    /\ link_proc # "none"

PackagingStarted ==
    \/ "package" \in Range(stages)
    \/ deploy_runs > 0
    \/ tmp_dir
    \/ tmp_zip # "absent"
    \/ final_zip # init_fs.final_zip

\* C3: the linker is spawned only after compilation returned normally with the
\* flag unset; packaging starts only after the linker exited zero with
\* pack_after_build set; a failed compilation never spawns a linker and a
\* failed link never starts packaging.
C3_StageIsolation ==
    /\ (linker_runs > 0 \/ link_proc # "none") =>
            /\ CompileReturned
            /\ ~failed_flag
            /\ ~SomeCompilerFailed
            /\ \A s \in all_sources : Settled(s)
    /\ PackagingStarted => (link_proc = "exit0" /\ pack_after_build)
    /\ (CompileEnded /\ (failed_flag \/ SomeCompilerFailed)) =>
            (linker_runs = 0 /\ link_proc = "none")
    /\ link_proc = "exit1" => ~PackagingStarted

\* packaging ran to the end after a successful link
C3_Witness ==
    /\ link_proc = "exit0"
    /\ deploy_proc = "exit0"
    /\ final_zip = "new"
    /\ pc = "ended"

\* C4 as stated: from the moment the temporary archive is complete until the
\* move is done, and after a failure in between, the final archive path is in
\* the state it had before the run, and never holds a partial archive.
C4_ArchiveAtomic ==
    (pc \in {"pack_remove", "pack_move", "pack_copying"}
        \/ error \in {"RemoveError", "MoveError"}) =>
            final_zip = init_fs.final_zip

\* C5: with bin, include or lib missing, the constructor fails before build()
\* runs: no process is spawned, no directory is created or removed.
C5_InvalidToolkit ==
    ~({"bin", "include", "lib"} \subseteq qt_dirs) =>
        /\ pc \in {"run", "ended"}
        /\ stages = <<>>
        /\ result = "none"
        /\ moc_calls = <<>>
        /\ \A s \in SourcePaths : proc[s] = "none" /\ task[s] = "none"
        /\ linker_runs = 0 /\ link_proc = "none"
        /\ deploy_runs = 0 /\ deploy_proc = "none"
        /\ moc_temp = init_fs.moc_temp
        /\ out_dir = init_fs.out_dir
        /\ ~tmp_dir
        /\ pc = "ended" => (error = "FileNotFoundError" /\ thread_msg = "error")

\* the thread ended on a toolkit root that has bin and include but no lib
C5_Witness ==
    /\ qt_dirs = {"bin", "include"}
    /\ pc = "ended"
    /\ thread_msg = "error"

SomeMocFailed == \E i \in 1 .. Len(moc_calls) : moc_calls[i].rc # 0

\* C6: when the generator exits non-zero for a marked header, no generator is
\* run for a later header, the error reaches build(), no compiler process is
\* spawned, and build() reports failure.
C6_GeneratorFailure ==
    SomeMocFailed =>
        /\ moc_calls[Len(moc_calls)].rc # 0
        /\ \A i \in 1 .. Len(moc_calls) - 1 : moc_calls[i].rc = 0
        /\ {moc_calls[i].header : i \in 1 .. Len(moc_calls)}
                = {h \in hdr_marked : h <= moc_calls[Len(moc_calls)].header}
        /\ error = "CalledProcessError"
        /\ pc \in {"except", "finally", "returned", "ended"}
        /\ stages = <<"generate">>
        /\ all_sources = {}
        /\ \A s \in SourcePaths : proc[s] = "none" /\ task[s] = "none"
        /\ pc \in {"finally", "returned", "ended"} => result = "False"

\* the generator failed after one output was generated and with a marked header left
C6_Witness ==
    /\ SomeMocFailed
    /\ Len(moc_files) > 0
    /\ \E h \in hdr_marked : h > moc_calls[Len(moc_calls)].header
    /\ pc = "ended"
    /\ result = "False"

StageOrder == <<"generate", "compile", "link", "package">>

\* the stage in which an exception of build() was raised
FailedStage ==
    CASE error = "CalledProcessError" -> "generate"
      [] error \in {"ValueError", "TaskException", "RuntimeError"} -> "compile"
      [] error = "LinkError" -> "link"
      [] OTHER -> "package"

\* C7: build() enters the stages in the order generation, compilation, linking,
\* packaging, each at most once; the first failure ends the run with False and
\* no later stage; the elapsed time is printed on success and on failure.
C7_Pipeline ==
    /\ Len(stages) <= Len(StageOrder)
    /\ \A i \in 1 .. Len(stages) : stages[i] = StageOrder[i]
    /\ (error # "none" /\ stages # <<>>) => stages[Len(stages)] = FailedStage
    /\ (error # "none" /\ stages # <<>> /\ result # "none") => result = "False"
    /\ (error = "none" /\ result # "none") => result = "True"
    /\ (BuildOver /\ stages # <<>>) => (result # "none" /\ elapsed_reported)
    /\ result = "True" =>
            stages = IF pack_after_build THEN StageOrder ELSE SubSeq(StageOrder, 1, 3)

\* a run that failed in the link stage and printed the elapsed time
C7_Witness ==
    /\ pc = "returned"
    /\ result = "False"
    /\ elapsed_reported
    /\ stages = <<"generate", "compile", "link">>

\* C8: when a compiler process exits non-zero, build() reports failure, no
\* executable is produced and the output directory is neither created nor
\* written to.
C8_OutputUntouched ==
    SomeCompilerFailed =>
        /\ out_dir = init_fs.out_dir
        /\ exe = init_fs.exe
        /\ ~deployed
        /\ linker_runs = 0
        /\ BuildOver => result = "False"

\* a failed compilation in a run that started without an output directory
C8_Witness ==
    /\ SomeCompilerFailed
    /\ ~init_fs.out_dir
    /\ pc = "ended"
    /\ result = "False"

\* C9: when windeployqt exits non-zero, _package_build raises, no temporary
\* archive is built, the final archive path is unchanged and the executable
\* the link stage produced stays as it is.
C9_DeployFailure ==
    deploy_proc = "exit1" =>
        /\ error = "DeployError"
        /\ pc \in {"except", "finally", "returned", "ended"}
        /\ ~tmp_dir
        /\ tmp_zip = "absent"
        /\ final_zip = init_fs.final_zip
        /\ exe = "new"
        /\ BuildOver => result = "False"

\* the deployment tool failed in a run that found an old archive
C9_Witness ==
    /\ deploy_proc = "exit1"
    /\ init_fs.final_zip = "old"
    /\ pc = "ended"

\* _generate_moc_files has returned its list
GenReturned == pc = "compile_discover" \/ "compile" \in Range(stages)

C11_Idempotent ==
    /\ GenEnded => moc_temp.files \subseteq {MocOutputPath(h) : h \in hdr_marked}
    /\ (GenEnded /\ gen_run = 2) =>
            /\ error = gen_first.outcome
            /\ moc_files = gen_first.moc_files
            /\ Range(moc_files) = Range(gen_first.moc_files)
            /\ moc_temp = gen_first.moc_temp

\* the second run returned two generated sources; moc_temp held a stale file at first
C11_Witness ==
    /\ GenEnded
    /\ gen_run = 2
    /\ error = "none"
    /\ Cardinality(Range(moc_files)) >= 2
    /\ init_fs.moc_temp.files # {}

\* C12: a compile task that read the failure flag as set starts no compiler,
\* creates no object and adds nothing to objects: it is skipped. A compiler that
\* was started is never killed: while it is alive its own task is draining its
\* output, and it leaves that state only by exiting with a return code.
C12_Cooperative ==
    \A s \in SourcePaths :
        /\ saw_flag[s] = "set" =>
                /\ task[s] = "skipped"
                /\ proc[s] = "none"
                /\ ~BagIn(ObjOf(s), objects)
        /\ proc[s] = "alive" => task[s] \in {"reading", "have_line", "line_locked"}
        /\ proc[s] \in {"none", "alive", "exit0", "exit1"}

\* a task was skipped on the set flag while the compiler of another was still alive
C12_Witness ==
    \E s, t \in SourcePaths :
        /\ saw_flag[s] = "set"
        /\ task[s] = "skipped"
        /\ proc[t] = "alive"
        /\ failed_flag

\* C13: every access of a compile task to failed_flag, the read at the start of
\* the task as well as the write, and every access to objects happens in a step
\* of a task that holds the lock.
C13_AllAccessLocked ==
    [][\A s \in SourcePaths :
          /\ saw_flag'[s] # saw_flag[s] => s \in lock
          /\ (task[s] = "fail_locked" /\ task'[s] = "failed") => s \in lock
          /\ (task[s] = "done_locked" /\ task'[s] = "done") => s \in lock]_vars

\* the part of C13 the code keeps: the write of failed_flag and the append to
\* objects are made by the task that holds the lock, and no other task holds it
C13_WritesLocked ==
    \A s \in SourcePaths :
        task[s] \in {"fail_locked", "done_locked"} => lock = {s}

\* C14: within the compilation phase the failure flag is unset when the phase
\* starts, and no step takes it from failed back to unset, however many tasks
\* write it.
C14_Monotonic ==
    [][/\ pc = "compile_discover" => ~failed_flag'
       /\ failed_flag => failed_flag']_vars

\* two tasks wrote the flag and a third task recorded its object
C14_Witness ==
    /\ failed_flag
    /\ Cardinality({s \in SourcePaths : task[s] = "failed"}) >= 2
    /\ \E s \in SourcePaths : task[s] = "done"

C16_Bounded ==
    /\ Cardinality({s \in SourcePaths : task[s] \in RunningPcs})
            <= Min(CpuCount, Cardinality(AllSources))
    /\ Cardinality({s \in SourcePaths : proc[s] = "alive"})
            <= Min(CpuCount, Cardinality(AllSources))

\* as many compilers are alive as there are CPUs while a source waits in the queue
C16_Witness ==
    /\ Cardinality({s \in SourcePaths : proc[s] = "alive"}) = CpuCount
    /\ \E s \in SourcePaths : task[s] = "queued"

\* C17: every path of the de-duplicated union of the discovered and the generated
\* sources is submitted to the pool exactly once and nothing else is submitted;
\* a compiler process is started for a source only if none was started for it
\* before, and objects holds at most one object for each source.
C17_SubmittedOnce ==
    /\ [](pc \in {"as_completed", "pool_exit", "check_failed"} =>
            \A p \in SourcePaths :
                CopiesIn(p, submitted) =
                    IF \/ \E i \in cpp_files : p = CppPath(i)
                       \/ \E j \in DOMAIN moc_files : p = moc_files[j]
                    THEN 1 ELSE 0)
    /\ [](\A s \in SourcePaths : CopiesIn(ObjOf(s), objects) <= 1)
    /\ [][\A s \in SourcePaths :
            (proc'[s] = "alive" /\ proc[s] # "alive") => proc[s] = "none"]_vars

\* the same generated path was listed twice (two marked headers with one base
\* name), and its one task has added its one object
C17_Witness ==
    /\ \E i, j \in DOMAIN moc_files : i # j /\ moc_files[i] = moc_files[j]
                                      /\ task[moc_files[i]] = "done"
                                      /\ CopiesIn(ObjOf(moc_files[i]), objects) = 1
    /\ Cardinality(cpp_files) >= 1

\* C18: a compile task prints only while it holds the lock, at most one task
\* holds it, and while a task has printed part of a locked section no other
\* task prints: the lines of one section are contiguous.
C18_Serialized ==
    /\ [](\A s \in SourcePaths : task[s] \in PrintPcs => s \in lock)
    /\ [](Cardinality(lock) <= 1 /\ sink \subseteq lock)
    /\ [][\A s, t \in SourcePaths :
            (s \in sink /\ task[t] \in PrintPcs /\ task'[t] # task[t]) => s = t]_vars

\* a task has printed its start line and not yet its command line while another
\* task waits with a compiler output line to print
C18_Witness ==
    \E s, t \in SourcePaths :
        /\ s # t
        /\ task[s] = "log_start_cmd"
        /\ s \in sink
        /\ task[t] = "have_line"

\* C19: a compile task does not hold the lock at the positions where it starts
\* its compiler or blocks on the compiler's output; so, under fair scheduling
\* and with every started compiler exiting at some time, the phase ends: every
\* task has settled and _compile_sources has returned objects or raised.
C19_Terminates ==
    /\ [](\A s \in SourcePaths : task[s] \in {"spawn", "reading"} => s \notin lock)
    /\ <>(/\ "compile" \in Range(stages)
          /\ \/ pc = "link_mkdir" /\ error = "none"
             \/ pc = "except" /\ error # "none"
          /\ \A s \in SourcePaths :
                task[s] \in {"none", "skipped", "failed", "done", "raised"})

\* a task blocks on the output of its live compiler while another task holds
\* the lock and a third source waits in the queue
C19_Witness ==
    \E s, t, u \in SourcePaths :
        /\ s # t
        /\ proc[s] = "alive"
        /\ task[s] = "reading"
        /\ lock = {t}
        /\ task[u] = "queued"

\* C20: outside the archive step of _package_build the temporary directory and
\* the archive built in it do not exist: they are gone after the step succeeded,
\* after a failure while the archive was written, and after a failure of the
\* removal of the old archive or of the move of the new one.
C20_TmpRemoved ==
    pc \notin {"zip_open", "zip_write", "pack_remove", "pack_move", "pack_copying",
               "pack_report"} =>
        /\ ~tmp_dir
        /\ tmp_zip = "absent"

\* the move of the finished archive failed after packaging had made the
\* temporary directory, and the build has ended
C20_Witness ==
    /\ pc = "ended"
    /\ error = "MoveError"
    /\ stages[Len(stages)] = "package"
    /\ deploy_proc = "exit0"
    /\ ~tmp_dir

\* C21: different marked headers get different generated paths: the list returned
\* by _generate_moc_files has no path twice, every generator run wrote a file of
\* its own into moc_temp, and as many generated sources reach the pool as there
\* are marked headers.
C21_DistinctOutputs ==
    /\ \A i, j \in DOMAIN moc_files : i # j => moc_files[i] # moc_files[j]
    /\ (\A i \in DOMAIN moc_calls : moc_calls[i].rc = 0) =>
            Cardinality(moc_temp.files \ {StaleFile}) = Len(moc_calls)
    /\ pc \in {"as_completed", "pool_exit", "check_failed"} =>
            Cardinality({s \in SourcePaths : s.kind = "moc" /\ BagIn(s, submitted)})
                = Cardinality(hdr_marked)

\* the part of C21 the code keeps: when no two marked headers have the same
\* file name, the generated paths are pairwise different and each reaches the pool
C21_DistinctNames ==
    (\A g, h \in hdr_marked : g # h => HeaderBase(g) # HeaderBase(h)) =>
        /\ \A i, j \in DOMAIN moc_files : i # j => moc_files[i] # moc_files[j]
        /\ pc \in {"as_completed", "pool_exit", "check_failed"} =>
                Cardinality({s \in SourcePaths : s.kind = "moc" /\ BagIn(s, submitted)})
                    = Cardinality(hdr_marked)

\* C22: whatever the order of start_build and check_queue, at most one
\* BuildThread is running; a BuildThread has put exactly one message, 'done' or
\* 'error', on the queue when it ends (the constructor failed, build() returned
\* True, build() returned False); the button that start_build disabled becomes
\* normal only in the step of check_queue that takes that message, and it does
\* become normal again after every build.
C22_Session ==
    /\ [](threads <= 1)
    /\ [](btn_build = "normal" => threads = 0)
    /\ [](pc \notin {"idle", "ended"} => (posted = 0 /\ event_queue = <<>>))
    /\ [](pc = "ended" =>
            /\ posted = 1
            /\ thread_msg = (IF result = "none" THEN "error" ELSE "done")
            /\ btn_build = "disabled" => event_queue = <<thread_msg>>)
    /\ [][(btn_build = "disabled" /\ btn_build' = "normal") =>
            (pc = "ended" /\ event_queue = <<thread_msg>> /\ event_queue' = <<>>)]_vars
    /\ (btn_build = "disabled" ~> btn_build = "normal")

\* a second build, started after the executable of the first was linked, has
\* ended with build() returning False and its message is waiting in the queue
C22_Witness ==
    /\ init_fs.exe = "new"
    /\ pc = "ended"
    /\ result = "False"
    /\ event_queue = <<"done">>
    /\ btn_build = "disabled"

====
